---- MODULE Spec2Model ----
(***************************************************************************)
(* LeaderboardRenderer (static/js/leaderboard.js): a table renderer that   *)
(* fetches a JSON dataset, keeps a sort configuration and renders title,   *)
(* header and body into three optional DOM containers.                     *)
(*                                                                         *)
(* Text is modelled as a sequence of word tokens, so that "the text        *)
(* contains 404" is the presence of the token "404".  Cell values are      *)
(* integers (a string column is represented by the rank of the string in   *)
(* lexicographic order); a key that is absent from a row is `undefined`,   *)
(* for which both < and > are false.                                       *)
(***************************************************************************)
EXTENDS Integers, Sequences, FiniteSets

VARIABLES
  elems,       \* ids for which document.getElementById returns an element
  data,        \* this.data
  sortConfig,  \* this.sortConfig
  dom,         \* content of the title, head and body elements
  inits,       \* the init() calls issued so far, each with its position
  fetchCount,  \* number of fetch(dataUrl) calls issued
  lastOp,      \* the operation that ran last, with its argument
  threw,       \* whether the last synchronous call raised to its caller
  ret,         \* value returned by the last direct getSortedRows() call
  renderRun,   \* renderTable() calls since Dataset/SortState/DOM last changed otherwise (capped at 2)
  snap         \* DOM content left by the first call of the current run

vars == <<elems, data, sortConfig, dom, inits, fetchCount, lastOp, threw, ret, renderRun, snap>>

\* ---------------------------------------------------------------- bounds
MaxInits == 2
MaxRows == 3
MaxVal == 2

\* ------------------------------------------------------------ basic values
ElementIds == {"title", "head", "body"}

Null == [unset |-> TRUE]

EmptyDom == [title |-> <<>>, head |-> <<>>, body |-> <<>>]

InitialSortConfig == [key |-> "average", direction |-> "desc"]

ErrorTitle == <<"Error", "loading", "leaderboard", "data">>

Contains(text, token) == \E i \in DOMAIN text : text[i] = token

Range(s) == {s[i] : i \in DOMAIN s}

Count(s, x) == Cardinality({i \in DOMAIN s : s[i] = x})

\* ------------------------------------------------------- fetch and errors
Statuses == {200, 404}

ResponseOk(status) == status >= 200 /\ status <= 299

StatusToken(status) ==
  CASE status = 200 -> "200"
    [] status = 404 -> "404"

StatusText(status) ==
  CASE status = 200 -> <<"OK">>
    [] status = 404 -> <<"Not", "Found">>

NoError == [kind |-> "none", message |-> <<>>]

FetchError(status) ==
  [kind |-> "FetchError",
   message |-> <<"Failed", "to", "load", "data:", StatusToken(status)>> \o StatusText(status)]

NetworkError == [kind |-> "NetworkError", message |-> <<"Failed", "to", "fetch">>]

ParseError == [kind |-> "ParseError", message |-> <<"Unexpected", "token">>]

TypeError == [kind |-> "TypeError", message |-> <<"Cannot", "set", "properties", "of", "null">>]

\* ---------------------------------------------------------------- datasets
Col(id, label, sortable, emphasized) ==
  [id |-> id, label |-> label, sortable |-> sortable, emphasized |-> emphasized]

MethodAverageColumns ==
  <<Col("method", "Method", FALSE, FALSE), Col("average", "Average", TRUE, TRUE)>>

Dataset1 ==
  [title |-> <<"Model", "Leaderboard">>,
   columns |-> MethodAverageColumns,
   rows |-> <<[method |-> 1, average |-> 2],
              [method |-> 2, average |-> 0],
              [method |-> 0, average |-> 1]>>]

Dataset2 ==
  [title |-> <<"T">>,
   columns |-> <<Col("a", "A", TRUE, FALSE)>>,
   rows |-> <<[a |-> 3], [a |-> 1], [a |-> 2]>>]

Dataset3 ==
  [title |-> <<"Ranking">>,
   columns |-> <<Col("method", "Method", TRUE, FALSE), Col("average", "Average", FALSE, TRUE)>>,
   rows |-> <<[method |-> 1, average |-> 1],
              [method |-> 0, average |-> 2]>>]

Datasets == {Dataset1, Dataset2, Dataset3}

Keys == {"method", "average", "a"}

Directions == {"asc", "desc"}

\* ---------------------------------------------------------------- sorting
\* a[key] < b[key]: false as soon as one side is undefined
Less(a, b, key) == key \in DOMAIN a /\ key \in DOMAIN b /\ a[key] < b[key]

CompareIgnoringDirection(a, b, cfg) ==
  IF Less(a, b, cfg.key) THEN -1
  ELSE IF Less(b, a, cfg.key) THEN 1
  ELSE 0

Compare(a, b, cfg) ==
  IF Less(a, b, cfg.key) THEN (IF cfg.direction = "asc" THEN -1 ELSE 1)
  ELSE IF Less(b, a, cfg.key) THEN (IF cfg.direction = "asc" THEN 1 ELSE -1)
  ELSE 0

\* Array.prototype.sort: a stable insertion of each element in turn
RECURSIVE InsertSorted(_, _, _)
InsertSorted(s, x, cfg) ==
  IF s = <<>> THEN <<x>>
  ELSE IF Compare(s[Len(s)], x, cfg) > 0
       THEN Append(InsertSorted(SubSeq(s, 1, Len(s) - 1), x, cfg), s[Len(s)])
       ELSE Append(s, x)

RECURSIVE ArraySort(_, _)
ArraySort(s, cfg) ==
  IF s = <<>> THEN <<>>
  ELSE InsertSorted(ArraySort(SubSeq(s, 1, Len(s) - 1), cfg), s[Len(s)], cfg)

GetSortedRows(d, cfg) == ArraySort(d.rows, cfg)

\* --------------------------------------------------------------- rendering
ThAllClickable(column, cfg) ==
  [text |-> column.label,
   classes |-> (IF column.sortable THEN <<"sortable">> ELSE <<>>)
               \o (IF column.sortable /\ cfg.key = column.id
                   THEN (IF cfg.direction = "asc" THEN <<"sorted-asc">> ELSE <<"sorted-desc">>)
                   ELSE <<>>)
               \o (IF column.emphasized THEN <<"average-column">> ELSE <<>>),
   click |-> <<column.id>>]

Th(column, cfg) ==
  [text |-> column.label,
   classes |-> (IF column.sortable THEN <<"sortable">> ELSE <<>>)
               \o (IF column.sortable /\ cfg.key = column.id
                   THEN (IF cfg.direction = "asc" THEN <<"sorted-asc">> ELSE <<"sorted-desc">>)
                   ELSE <<>>)
               \o (IF column.emphasized THEN <<"average-column">> ELSE <<>>),
   click |-> IF column.sortable THEN <<column.id>> ELSE <<>>]

CreateHeaderRow(d, cfg) == [i \in 1..Len(d.columns) |-> Th(d.columns[i], cfg)]

Td(row, column) ==
  [text |-> IF column.id \in DOMAIN row THEN <<row[column.id]>> ELSE <<>>,
   classes |-> (IF column.id = "method" THEN <<"method-column">> ELSE <<>>)
               \o (IF column.id = "average" THEN <<"average-column">> ELSE <<>>)]

CreateTableBody(d, sortedRows) ==
  [r \in 1..Len(sortedRows) |-> [c \in 1..Len(d.columns) |-> Td(sortedRows[r], d.columns[c])]]

KeepChildren(children) == children

\* element.innerHTML = ''
ClearChildren(children) == <<>>

RenderLoaded(d, cfg, dm, present) ==
  [dom |->
     [title |-> IF "title" \in present THEN d.title ELSE dm.title,
      head |-> IF "head" \in present
               THEN Append(ClearChildren(dm.head), CreateHeaderRow(d, cfg))
               ELSE dm.head,
      body |-> IF "body" \in present
               THEN ClearChildren(dm.body) \o CreateTableBody(d, GetSortedRows(d, cfg))
               ELSE dm.body],
   threw |-> FALSE]

\* renderTable without its guard: this.data.title, this.data.columns or
\* this.data.rows is read from null and a TypeError is raised
RenderTableUnguarded(d, cfg, dm, present) ==
  IF d = Null
  THEN [dom |-> [dm EXCEPT !.head = IF "title" \notin present /\ "head" \in present
                                    THEN <<>> ELSE @],
        threw |-> TRUE]
  ELSE RenderLoaded(d, cfg, dm, present)

RenderTable(d, cfg, dm, present) ==
  IF d = Null
  THEN [dom |-> dm, threw |-> FALSE]
  ELSE RenderLoaded(d, cfg, dm, present)

\* ------------------------------------------------------------ bookkeeping
Op(name, key, idx) == [name |-> name, key |-> key, idx |-> idx]

NewInit ==
  [pc |-> "await_fetch", cause |-> NoError, err |-> NoError,
   result |-> "pending", rendered |-> FALSE]

\* no continuation of an init() call is waiting in the microtask queue; a new
\* task (a click, a call from another script) starts only then
Quiescent == \A i \in DOMAIN inits : inits[i].pc \notin {"loaded", "rejected"}

\* the run of renderTable() calls after a call that produced newDom
RunAfterRender(newDom) ==
  IF data = Null THEN [n |-> 0, snap |-> EmptyDom]
  ELSE IF renderRun = 0 THEN [n |-> 1, snap |-> newDom]
  ELSE [n |-> 2, snap |-> snap]

\* ------------------------------------------------------------------ states
Init ==
  /\ elems \in SUBSET ElementIds
  /\ data = Null
  /\ sortConfig = InitialSortConfig
  /\ dom = EmptyDom
  /\ inits = <<>>
  /\ fetchCount = 0
  /\ lastOp = Op("constructor", "", 0)
  /\ threw = FALSE
  /\ ret = <<>>
  /\ renderRun = 0
  /\ snap = EmptyDom

\* ------------------------------------------------------------- operations
\* init() up to its first suspension: loadData() issues fetch(this.dataUrl)
InitCall ==
  /\ Quiescent
  /\ Len(inits) < MaxInits
  /\ inits' = Append(inits, NewInit)
  /\ fetchCount' = fetchCount + 1
  /\ lastOp' = Op("init", "", 0)
  /\ UNCHANGED <<elems, data, sortConfig, dom, threw, ret, renderRun, snap>>

CatchTitleTextWithMessage(cause) == cause.message

\* the text loadData's catch block writes into the title element
CatchTitleText(cause) == ErrorTitle

\* catch block of loadData: log, write the title, rethrow
LoadDataCatch(i, cause) ==
  LET found == "title" \in elems IN
  /\ dom' = IF found THEN [dom EXCEPT !.title = CatchTitleText(cause)] ELSE dom
  /\ inits' = [inits EXCEPT ![i] = [@ EXCEPT !.pc = "rejected",
                                             !.cause = cause,
                                             !.err = IF found THEN cause ELSE TypeError]]
  /\ renderRun' = IF found THEN 0 ELSE renderRun
  /\ snap' = IF found THEN EmptyDom ELSE snap
  /\ UNCHANGED <<elems, data, sortConfig, fetchCount, threw, ret>>

\* the fetch promise fulfils with a response
FetchResolve(i, status) ==
  /\ i \in DOMAIN inits
  /\ inits[i].pc = "await_fetch"
  /\ lastOp' = Op("loadData", "", 0)
  /\ IF ResponseOk(status)
     THEN /\ inits' = [inits EXCEPT ![i] = [@ EXCEPT !.pc = "await_json"]]
          /\ UNCHANGED <<elems, data, sortConfig, dom, fetchCount, threw, ret, renderRun, snap>>
     ELSE LoadDataCatch(i, FetchError(status))

\* the fetch promise rejects: transport-level failure
FetchReject(i) ==
  /\ i \in DOMAIN inits
  /\ inits[i].pc = "await_fetch"
  /\ lastOp' = Op("loadData", "", 0)
  /\ LoadDataCatch(i, NetworkError)

\* response.json() fulfils: this.data = ...; return this.data
JsonResolve(i, d) ==
  /\ i \in DOMAIN inits
  /\ inits[i].pc = "await_json"
  /\ data' = d
  /\ inits' = [inits EXCEPT ![i] = [@ EXCEPT !.pc = "loaded"]]
  /\ lastOp' = Op("loadData", "", 0)
  /\ renderRun' = 0
  /\ snap' = EmptyDom
  /\ UNCHANGED <<elems, sortConfig, dom, fetchCount, threw, ret>>

\* response.json() rejects: malformed body
JsonReject(i) ==
  /\ i \in DOMAIN inits
  /\ inits[i].pc = "await_json"
  /\ lastOp' = Op("loadData", "", 0)
  /\ LoadDataCatch(i, ParseError)

InitResultUncaught(loaded, renderThrew) ==
  IF loaded /\ ~renderThrew THEN "true" ELSE "rejected"

\* what the promise of init() settles to
InitResult(loaded, renderThrew) ==
  IF loaded /\ ~renderThrew THEN "true" ELSE "false"

\* init() resumes after `await this.loadData()`
InitContinue(i) ==
  /\ i \in DOMAIN inits
  /\ inits[i].pc \in {"loaded", "rejected"}
  /\ lastOp' = Op("init", "", 0)
  /\ IF inits[i].pc = "loaded"
     THEN LET r == RenderTable(data, sortConfig, dom, elems)
              run == RunAfterRender(r.dom)
          IN /\ dom' = r.dom
             /\ renderRun' = run.n
             /\ snap' = run.snap
             /\ inits' = [inits EXCEPT ![i] = [@ EXCEPT !.pc = "done",
                                                        !.rendered = TRUE,
                                                        !.result = InitResult(TRUE, r.threw)]]
     ELSE /\ inits' = [inits EXCEPT ![i] = [@ EXCEPT !.pc = "done",
                                                     !.result = InitResult(FALSE, FALSE)]]
          /\ UNCHANGED <<dom, renderRun, snap>>
  /\ UNCHANGED <<elems, data, sortConfig, fetchCount, threw, ret>>

NextDirectionIgnoringKey(cfg, key) ==
  IF cfg.direction = "asc" THEN "desc" ELSE "asc"

NextDirection(cfg, key) ==
  IF cfg.key = key /\ cfg.direction = "asc" THEN "desc" ELSE "asc"

HandleSortRefetch(key) ==
  LET cfg == [key |-> key, direction |-> NextDirection(sortConfig, key)]
      r == RenderTable(data, cfg, dom, elems)
  IN /\ sortConfig' = cfg
     /\ dom' = r.dom
     /\ threw' = r.threw
     /\ renderRun' = IF data = Null THEN 0 ELSE 1
     /\ snap' = IF data = Null THEN EmptyDom ELSE r.dom
     /\ fetchCount' = fetchCount + 1
     /\ UNCHANGED <<elems, data, inits, ret>>

HandleSortWithoutRender(key) ==
  /\ sortConfig' = [key |-> key, direction |-> NextDirection(sortConfig, key)]
  /\ threw' = FALSE
  /\ renderRun' = 0
  /\ snap' = EmptyDom
  /\ UNCHANGED <<elems, data, dom, inits, fetchCount, ret>>

\* handleSort(key)
HandleSort(key) ==
  LET cfg == [key |-> key, direction |-> NextDirection(sortConfig, key)]
      r == RenderTable(data, cfg, dom, elems)
  IN /\ sortConfig' = cfg
     /\ dom' = r.dom
     /\ threw' = r.threw
     /\ renderRun' = IF data = Null THEN 0 ELSE 1
     /\ snap' = IF data = Null THEN EmptyDom ELSE r.dom
     /\ UNCHANGED <<elems, data, inits, fetchCount, ret>>

\* a click event on header cell idx of a rendered header row
Click(row, idx) ==
  /\ Quiescent
  /\ row \in DOMAIN dom.head
  /\ idx \in DOMAIN dom.head[row]
  /\ LET th == dom.head[row][idx] IN
     IF th.click # <<>>
     THEN /\ HandleSort(th.click[1])
          /\ lastOp' = Op("click", th.click[1], idx)
     ELSE /\ lastOp' = Op("click", "", idx)
          /\ UNCHANGED <<elems, data, sortConfig, dom, inits, fetchCount, threw, ret, renderRun, snap>>

\* handleSort(key) called on the instance directly
CallHandleSort(key) ==
  /\ Quiescent
  /\ HandleSort(key)
  /\ lastOp' = Op("handleSort", key, 0)

\* renderTable() called on the instance directly
CallRenderTable ==
  LET r == RenderTable(data, sortConfig, dom, elems)
      run == RunAfterRender(r.dom)
  IN /\ Quiescent
     /\ dom' = r.dom
     /\ threw' = r.threw
     /\ renderRun' = run.n
     /\ snap' = run.snap
     /\ lastOp' = Op("renderTable", "", 0)
     /\ UNCHANGED <<elems, data, sortConfig, inits, fetchCount, ret>>

\* getSortedRows() called on the instance directly
CallGetSortedRows ==
  /\ Quiescent
  /\ IF data = Null
     THEN threw' = TRUE /\ ret' = <<>>
     ELSE threw' = FALSE /\ ret' = GetSortedRows(data, sortConfig)
  /\ lastOp' = Op("getSortedRows", "", 0)
  /\ UNCHANGED <<elems, data, sortConfig, dom, inits, fetchCount, renderRun, snap>>

\* ---------------------------------------------------------- specifications
\* the instance driven through its methods and through header clicks
Next ==
  \/ InitCall
  \/ \E i \in 1..MaxInits, status \in Statuses : FetchResolve(i, status)
  \/ \E i \in 1..MaxInits : FetchReject(i)
  \/ \E i \in 1..MaxInits, d \in Datasets : JsonResolve(i, d)
  \/ \E i \in 1..MaxInits : JsonReject(i)
  \/ \E i \in 1..MaxInits : InitContinue(i)
  \/ \E row \in DOMAIN dom.head : \E idx \in DOMAIN dom.head[row] : Click(row, idx)
  \/ \E key \in Keys : CallHandleSort(key)
  \/ CallRenderTable

Spec == Init /\ [][Next]_vars

\* the page: the DOMContentLoaded handler constructs one renderer, calls
\* init() once and keeps the instance to itself; afterwards only clicks
Bootstrap ==
  /\ Len(inits) = 0
  /\ InitCall

PageNext ==
  \/ Bootstrap
  \/ \E status \in Statuses : FetchResolve(1, status)
  \/ FetchReject(1)
  \/ \E d \in Datasets : JsonResolve(1, d)
  \/ JsonReject(1)
  \/ InitContinue(1)
  \/ \E row \in DOMAIN dom.head : \E idx \in DOMAIN dom.head[row] : Click(row, idx)

PageSpec == Init /\ [][PageNext]_vars

\* getSortedRows() applied to every small Dataset under every SortState
NamesCount == 2

RowValues == [method : 0..(NamesCount - 1), average : 0..MaxVal]

RowSeqs == UNION {[1..n -> RowValues] : n \in 0..MaxRows}

SortInit ==
  /\ elems = ElementIds
  /\ data \in {[title |-> <<"T">>, columns |-> MethodAverageColumns, rows |-> rs] : rs \in RowSeqs}
  /\ sortConfig \in [key : Keys, direction : Directions]
  /\ dom = EmptyDom
  /\ inits = <<>>
  /\ fetchCount = 0
  /\ lastOp = Op("constructor", "", 0)
  /\ threw = FALSE
  /\ ret = <<>>
  /\ renderRun = 0
  /\ snap = EmptyDom

SortNext == CallGetSortedRows

SortSpec == SortInit /\ [][SortNext]_vars

\* ------------------------------------------------------------------ claims
HandleSortRan(op) == op.name = "handleSort" \/ (op.name = "click" /\ op.key # "")

Failed(i) == inits[i].pc \in {"rejected", "done"} /\ inits[i].cause # NoError

\* C1: toggle law of handleSort: after handleSort(k) the SortState is
\* {k, "desc"} when k was the current key and the direction was "asc", and
\* {k, "asc"} in every other case.
C1_ToggleLaw ==
  [][HandleSortRan(lastOp') =>
       sortConfig' = [key |-> lastOp'.key,
                      direction |-> IF lastOp'.key = sortConfig.key /\ sortConfig.direction = "asc"
                                    THEN "desc" ELSE "asc"]]_vars

\* two handleSort("average") from the initial state: back to {average, desc}
C1_Witness ==
  /\ lastOp = Op("handleSort", "average", 0)
  /\ sortConfig = [key |-> "average", direction |-> "desc"]

\* C2 as stated: after init() on a fresh renderer whose fetch answered 404,
\* the title text contains "404", init() resolved to false and the body is
\* empty.
C2_Original ==
  \A i \in DOMAIN inits :
    (Len(inits) = 1 /\ inits[i].pc = "done" /\ inits[i].cause = FetchError(404)
       /\ "title" \in elems)
    => /\ Contains(dom.title, "404")
       /\ inits[i].result = "false"
       /\ dom.body = <<>>

\* C2 as amended: after init() on a fresh renderer whose fetch answered 404,
\* init() resolved to false and the body is empty; the title element, when it
\* exists, holds the fixed text "Error loading leaderboard data", which does
\* not contain "404" (the status is carried by the error's message only).
C2_Http404 ==
  \A i \in DOMAIN inits :
    (Len(inits) = 1 /\ inits[i].pc = "done" /\ inits[i].cause = FetchError(404))
    => /\ inits[i].result = "false"
       /\ dom.body = <<>>
       /\ Contains(inits[i].cause.message, "404")
       /\ "title" \in elems =>
            /\ dom.title = ErrorTitle
            /\ ~Contains(dom.title, "404")

C2_Witness ==
  /\ Len(inits) = 1
  /\ inits[1].pc = "done"
  /\ inits[1].cause = FetchError(404)
  /\ "title" \in elems
  /\ dom.title = ErrorTitle

\* C3: init() never rejects: its promise settles to true exactly when
\* loadData() succeeded, after renderTable() has run, and to false on every
\* failure of loadData().
C3_InitNeverRejects ==
  \A i \in DOMAIN inits :
    /\ inits[i].result # "rejected"
    /\ inits[i].pc # "done" => inits[i].result = "pending"
    /\ inits[i].pc = "done" =>
         /\ inits[i].result \in {"true", "false"}
         /\ inits[i].result = "true" <=> inits[i].cause = NoError
         /\ inits[i].result = "true" => inits[i].rendered
         /\ inits[i].err # NoError => inits[i].result = "false"

\* one init() resolved to true, another swallowed a network or parse failure
C3_Witness ==
  \E i, j \in DOMAIN inits :
    /\ inits[i].pc = "done" /\ inits[i].result = "true" /\ inits[i].rendered
    /\ inits[j].pc = "done" /\ inits[j].result = "false"
    /\ inits[j].cause \in {NetworkError, ParseError}

\* C4 as stated: a failing loadData() rejects with the underlying error
\* itself, whether or not the title element exists, writes the error text
\* into the title element when it exists, and leaves the Dataset as it was.
C4_Claim ==
  [][\A i \in DOMAIN inits :
       (inits[i].pc \in {"await_fetch", "await_json"} /\ inits'[i].pc = "rejected")
       => /\ inits'[i].err = inits'[i].cause
          /\ "title" \in elems => dom'.title = ErrorTitle
          /\ data' = data]_vars

\* C5: for a key present in every row, getSortedRows() returns a permutation
\* of Dataset.rows that is non-decreasing in the key under "asc" and
\* non-increasing under "desc".
C5_SortedPermutation ==
  (lastOp.name = "getSortedRows" /\ ~threw
     /\ \A i \in DOMAIN data.rows : sortConfig.key \in DOMAIN data.rows[i])
  => /\ Len(ret) = Len(data.rows)
     /\ \A r \in Range(data.rows) \cup Range(ret) : Count(ret, r) = Count(data.rows, r)
     /\ \A i, j \in DOMAIN ret :
          i < j => IF sortConfig.direction = "asc"
                   THEN ret[i][sortConfig.key] <= ret[j][sortConfig.key]
                   ELSE ret[i][sortConfig.key] >= ret[j][sortConfig.key]

C5_Witness ==
  /\ lastOp.name = "getSortedRows"
  /\ sortConfig = [key |-> "average", direction |-> "desc"]
  /\ Len(ret) = 3
  /\ ret # data.rows
  /\ ret[1].average > ret[2].average
  /\ ret[2].average = ret[3].average

\* C6: one fetch per init() call and no other; handleSort issues no fetch
\* and leaves the Dataset untouched; while every load so far has failed the
\* Dataset stays unset.
C6_NoRefetch ==
  /\ [](fetchCount = Len(inits))
  /\ []((\A i \in DOMAIN inits : Failed(i)) => data = Null)
  /\ [][HandleSortRan(lastOp') => (data' = data /\ fetchCount' = fetchCount)]_vars

C6_Witness ==
  /\ Len(inits) = 2
  /\ Failed(1)
  /\ inits[2].pc = "done" /\ inits[2].result = "true"
  /\ HandleSortRan(lastOp)
  /\ fetchCount = 2

\* C7: with no Dataset, renderTable() and handleSort(key) raise nothing and
\* leave title, header and body as they were.
C7_RenderWithoutData ==
  [][(data = Null /\ (lastOp'.name = "renderTable" \/ HandleSortRan(lastOp')))
       => (dom' = dom /\ ~threw')]_vars

\* handleSort called after a failed load, the error text still in the title
C7_Witness ==
  /\ data = Null
  /\ lastOp.name = "handleSort"
  /\ sortConfig.key = "method"
  /\ \E i \in DOMAIN inits : inits[i].pc = "done" /\ inits[i].result = "false"
  /\ dom = [EmptyDom EXCEPT !.title = ErrorTitle]

\* C8: a second renderTable() with Dataset and SortState unchanged leaves
\* title, header and body as the first call left them, whichever containers
\* exist; renderTable() changes neither Dataset nor SortState.
C8_RenderIdempotent ==
  /\ [](renderRun = 2 => dom = snap)
  /\ [][lastOp'.name = "renderTable" => (data' = data /\ sortConfig' = sortConfig)]_vars

C8_Witness ==
  /\ renderRun = 2
  /\ lastOp.name = "renderTable"
  /\ elems = {"head", "body"}
  /\ Len(dom.head) = 1
  /\ Len(dom.body) = 3

\* C9: on the page, exactly the header cells of sortable columns carry a
\* click handler, bound to handleSort(column.id); a click on the header of a
\* non-sortable column changes neither SortState nor the DOM and renders
\* nothing; SortState.key is "average" or the id of a sortable column of the
\* loaded Dataset.
C9_OnlySortableClickable ==
  /\ []((Quiescent /\ data # Null /\ "head" \in elems) =>
          /\ Len(dom.head) = 1
          /\ DOMAIN dom.head[1] = DOMAIN data.columns
          /\ \A c \in DOMAIN data.columns :
               dom.head[1][c].click =
                 IF data.columns[c].sortable THEN <<data.columns[c].id>> ELSE <<>>)
  /\ [](\/ sortConfig.key = "average"
        \/ /\ data # Null
           /\ \E c \in DOMAIN data.columns :
                data.columns[c].sortable /\ data.columns[c].id = sortConfig.key)
  /\ [][(lastOp'.name = "click" /\ data # Null /\ lastOp'.idx \in DOMAIN data.columns
           /\ ~data.columns[lastOp'.idx].sortable)
          => (sortConfig' = sortConfig /\ dom' = dom /\ renderRun' = renderRun)]_vars

\* the non-sortable "Average" header of Dataset3 clicked after a sort by method
C9_Witness ==
  /\ data = Dataset3
  /\ lastOp = Op("click", "", 2)
  /\ sortConfig.key = "method"

\* C10: whenever no continuation is pending and the Dataset is set, the body
\* (if present) shows the rows of the stored Dataset in the order of the
\* current SortState, and the header (if present) carries "sorted-asc" or
\* "sorted-desc", matching the direction, on the sortable column whose id is
\* SortState.key and on no other cell.
C10_ViewMatchesState ==
  (Quiescent /\ data # Null) =>
    /\ "body" \in elems => dom.body = CreateTableBody(data, GetSortedRows(data, sortConfig))
    /\ "head" \in elems =>
         /\ Len(dom.head) = 1
         /\ DOMAIN dom.head[1] = DOMAIN data.columns
         /\ \A c \in DOMAIN data.columns :
              LET isKey == data.columns[c].sortable /\ data.columns[c].id = sortConfig.key IN
              /\ Contains(dom.head[1][c].classes, "sorted-asc")
                   <=> (isKey /\ sortConfig.direction = "asc")
              /\ Contains(dom.head[1][c].classes, "sorted-desc")
                   <=> (isKey /\ sortConfig.direction = "desc")

\* the second init() finished while the first is still waiting for its
\* fetch, after a click had changed the sort order
C10_Witness ==
  /\ elems = ElementIds
  /\ Len(inits) = 2
  /\ inits[1].pc = "await_json"
  /\ inits[2].pc = "done" /\ inits[2].result = "true"
  /\ data = Dataset1
  /\ sortConfig = [key |-> "average", direction |-> "asc"]
  /\ Len(dom.body) = 3

====
